---- MODULE Spec2Model ----
(***************************************************************************)
(* Model of Stocks_dashboard.py, a Streamlit script.  Streamlit re-runs    *)
(* the whole script top to bottom on every user interaction; only          *)
(* st.session_state (and the file system) survive from one run to the      *)
(* next.  One script run is modelled as a chain of steps, one per block of *)
(* the script, with pc naming the block the run is about to execute.       *)
(*                                                                         *)
(* Numbers.  Prices and volumes are integers (prices in a minor currency   *)
(* unit).  A computed value is a record: an exact rational num/den, the    *)
(* undefined value NaN, or (Bollinger bands) mean + k*sqrt(variance) kept  *)
(* symbolically.  Floating-point rounding is not modelled.                 *)
(***************************************************************************)
EXTENDS Integers, Sequences, FiniteSets, TLC

(***************************************************************************)
(* Program constants.                                                      *)
(***************************************************************************)
SMA_WINDOW == 20
BB_WINDOW == 20
BB_K == 2
DMA50_WINDOW == 50
DMA200_WINDOW == 200

Options == <<"20-Day SMA", "20-Day EMA", "20-Day Bollinger Bands", "VWAP",
             "50-Day DMA", "200-Day DMA">>

DefaultIndicators == <<"20-Day SMA">>

(***************************************************************************)
(* Bounds of the model.                                                    *)
(***************************************************************************)
\* bars beyond a full window in the longest series of each window
ExtraBars == 1
\* number of distinct price/volume patterns the provider can return
NumShapes == 2
\* most indicators selected at once in the multiselect
MaxSelected == 2
\* most temporary files left on disk before the AI button is no longer pressed
MaxTmpFiles == 1

(***************************************************************************)
(* Values.                                                                 *)
(***************************************************************************)
NaN == [def |-> FALSE]

Rat(n, d) == [def |-> TRUE, num |-> n, den |-> d]

\* float division of two integer columns, element by element: x/0 is NaN for
\* x = 0 and infinite otherwise
Div(n, d) ==
    IF d # 0 THEN Rat(n, d)
    ELSE IF n = 0 THEN NaN
    ELSE [def |-> TRUE, inf |-> TRUE]

IsDefined(v) == v.def

\* mean + k * sqrt(variance); NaN when either operand is NaN
AddScaledStd(m, k, v) ==
    IF IsDefined(m) /\ IsDefined(v)
    THEN [def |-> TRUE, mean |-> m, k |-> k, var |-> v]
    ELSE NaN

(***************************************************************************)
(* pandas: Series.cumsum, Series.rolling(window).mean / .std               *)
(***************************************************************************)
\* Slide with the removal forgotten: the window only ever grows
Slide_never_drops(x, w, t, prev) ==
    prev + x[t]

\* The running total after bar t, given the totals up to bar t-1: the entering
\* bar is added and the bar that leaves a window of w bars is removed.
Slide(x, w, t, prev) ==
    prev + x[t] - (IF t > w THEN x[t - w] ELSE 0)

\* One left-to-right pass over bars lo..t, extending the totals in before.
RECURSIVE Pass(_, _, _, _, _)
Pass(x, w, lo, t, before) ==
    IF t < lo THEN before
    ELSE LET prev == Pass(x, w, lo, t - 1, before)
         IN  Append(prev, Slide(x, w, t, IF t = 1 THEN 0 ELSE prev[t - 1]))

\* The pass over bars 1..hi, evaluated in stretches of 16 bars (the stretches
\* only keep the evaluation shallow; the totals are those of a single pass).
RECURSIVE PassTo(_, _, _)
PassTo(x, w, hi) ==
    IF hi = 0 THEN <<>>
    ELSE LET lo == hi - ((hi - 1) % 16)
             before == PassTo(x, w, lo - 1)
         IN  IF Len(before) = lo - 1 THEN Pass(x, w, lo, hi, before) ELSE <<>>

\* Series.cumsum(): running total from the first element, nothing ever leaves
cumsum(x) == PassTo(x, Len(x), Len(x))

\* element-wise product of two columns
Mul(x, y) == [t \in 1..Len(x) |-> x[t] * y[t]]

\* the sliding sum kept by rolling(window=w)
RollingSum(x, w) == PassTo(x, w, Len(x))

\* observations in the window ending at t (1-based)
Nobs(t, w) == IF t < w THEN t ELSE w

\* RollingMean with min_periods = 1: a partial window already yields a mean
RollingMean_min_periods_1(x, w) ==
    LET s == RollingSum(x, w)
    IN  [t \in 1..Len(x) |-> Rat(s[t], Nobs(t, w))]

\* rolling(window=w).mean(): min_periods defaults to the window
RollingMean(x, w) ==
    LET s == RollingSum(x, w)
    IN  [t \in 1..Len(x) |->
            IF Nobs(t, w) >= w THEN Rat(s[t], Nobs(t, w)) ELSE NaN]

\* RollingVar with the population variance (ddof = 0)
RollingVar_population(x, w) ==
    LET s  == RollingSum(x, w)
        sq == RollingSum(Mul(x, x), w)
    IN  [t \in 1..Len(x) |->
            IF Nobs(t, w) >= w /\ w > 1
            THEN Rat(w * sq[t] - s[t] * s[t], w * w)
            ELSE NaN]

\* rolling(window=w).std(): sample variance (ddof = 1) of the window, from the
\* sliding sum and sum of squares; the value is the variance whose root is taken
RollingVar(x, w) ==
    LET s  == RollingSum(x, w)
        sq == RollingSum(Mul(x, x), w)
    IN  [t \in 1..Len(x) |->
            IF Nobs(t, w) >= w /\ w > 1
            THEN Rat(w * sq[t] - s[t] * s[t], w * (w - 1))
            ELSE NaN]

(***************************************************************************)
(* The price-data provider (nselib).  A DataFrame is a function from       *)
(* column names to columns of equal length.  Only the columns the script   *)
(* computes with are kept: Date, ClosePrice and TotalTradedQuantity (the   *)
(* candlestick also reads Open/High/Low, which nothing else touches).      *)
(***************************************************************************)
Windows == {SMA_WINDOW, BB_WINDOW, DMA50_WINDOW, DMA200_WINDOW}

\* series lengths: one bar, and around each window: one bar short of it, and
\* ExtraBars beyond it
Lengths == {1} \cup {w - 1 : w \in Windows} \cup {w + ExtraBars : w \in Windows}

Shapes == 0..(NumShapes - 1)

ClosePriceOf(s, t) == 10 + ((t * t * (s + 1) + 3 * t * (s + 2)) % 11)

\* shape 0 trades every day; shape s > 0 opens with zero-volume bars and has
\* zero-volume bars later on
VolumeOf(s, t) ==
    IF s = 0 THEN 1 + (t % 3)
    ELSE IF t <= s THEN 0
    ELSE (t + s) % 3

DataFrame(n, s) ==
    [Date                |-> [t \in 1..n |-> t],
     ClosePrice          |-> [t \in 1..n |-> ClosePriceOf(s, t)],
     TotalTradedQuantity |-> [t \in 1..n |-> VolumeOf(s, t)]]

EmptyFrame == DataFrame(0, 0)

\* the non-empty frames a fetch can have stored
Frames == {DataFrame(n, s) : n \in Lengths, s \in Shapes}

ProviderErrors == {"ConnectionError", "KeyError"}

\* the histories the provider returns in the runs of a whole session: one bar,
\* and around the 20-bar window
SessionLengths == {1, SMA_WINDOW - 1, SMA_WINDOW + ExtraBars}

\* what capital_market.price_volume_and_deliverable_position_data can do
ProviderResponses ==
    {[kind |-> "raise", cause |-> c] : c \in ProviderErrors}
    \cup {[kind |-> "frame", df |-> EmptyFrame]}
    \cup {[kind |-> "frame", df |-> DataFrame(n, s)] : n \in SessionLengths, s \in Shapes}

\* DataFrame.empty
empty(df) == Len(df.Date) = 0

\* pd.to_datetime on the Date column
to_datetime(col) == [t \in 1..Len(col) |-> [day |-> col[t]]]

(***************************************************************************)
(* Chart: a figure is the sequence of its traces.                          *)
(***************************************************************************)
Scatter(name, x, y) == [name |-> name, x |-> x, y |-> y]

Candlestick(data) ==
    [name |-> "Candlestick", x |-> to_datetime(data.Date), y |-> data.ClosePrice]

\* the exponentially weighted mean is kept symbolically: defined at every bar,
\* a function of the closes up to that bar
ewm_mean(x, span) == [t \in 1..Len(x) |-> [def |-> TRUE, ewm |-> span, upto |-> t]]

\* DataFrame column assignment data[col] = values
SetColumn(data, col, values) ==
    [c \in (DOMAIN data) \cup {col} |-> IF c = col THEN values ELSE data[c]]

\* vwap_column dividing by the total volume of the series instead of the
\* cumulative volume
vwap_column_total_volume(data) ==
    LET n == cumsum(Mul(data.ClosePrice, data.TotalTradedQuantity))
        d == cumsum(data.TotalTradedQuantity)
    IN  [t \in 1..Len(data.Date) |-> Div(n[t], d[Len(data.Date)])]

\* the VWAP column: cumulative(close * volume) / cumulative(volume)
vwap_column(data) ==
    LET n == cumsum(Mul(data.ClosePrice, data.TotalTradedQuantity))
        d == cumsum(data.TotalTradedQuantity)
    IN  [t \in 1..Len(data.Date) |-> Div(n[t], d[t])]

\* rolling-mean trace of the close
sma_trace(data, name, w) ==
    Scatter(name, to_datetime(data.Date), RollingMean(data.ClosePrice, w))

\* the two Bollinger traces: mean +/- BB_K standard deviations
bb_traces(data) ==
    LET sma == RollingMean(data.ClosePrice, BB_WINDOW)
        std == RollingVar(data.ClosePrice, BB_WINDOW)
        bb_upper == [t \in 1..Len(sma) |-> AddScaledStd(sma[t], BB_K, std[t])]
        bb_lower == [t \in 1..Len(sma) |-> AddScaledStd(sma[t], 0 - BB_K, std[t])]
    IN  << Scatter("BB Upper", to_datetime(data.Date), bb_upper),
           Scatter("BB Lower", to_datetime(data.Date), bb_lower) >>

\* add_indicator(indicator): the figure and the DataFrame after the call.  data
\* is the very object held in st.session_state, so the VWAP column assignment
\* changes the stored frame.
add_indicator(indicator, fig, data) ==
    IF indicator = "20-Day SMA" THEN
        [fig |-> Append(fig, sma_trace(data, "SMA (20)", SMA_WINDOW)), data |-> data]
    ELSE IF indicator = "20-Day EMA" THEN
        [fig |-> Append(fig, Scatter("EMA (20)", to_datetime(data.Date),
                                     ewm_mean(data.ClosePrice, 20))),
         data |-> data]
    ELSE IF indicator = "20-Day Bollinger Bands" THEN
        [fig |-> fig \o bb_traces(data), data |-> data]
    ELSE IF indicator = "VWAP" THEN
        LET d2 == SetColumn(data, "VWAP", vwap_column(data))
        IN  [fig |-> Append(fig, Scatter("VWAP", to_datetime(d2.Date), d2.VWAP)),
             data |-> d2]
    ELSE IF indicator = "50-Day DMA" THEN
        [fig |-> Append(fig, sma_trace(data, "DMA (50)", DMA50_WINDOW)), data |-> data]
    ELSE IF indicator = "200-Day DMA" THEN
        [fig |-> Append(fig, sma_trace(data, "DMA (200)", DMA200_WINDOW)), data |-> data]
    ELSE [fig |-> fig, data |-> data]

(***************************************************************************)
(* The script.                                                             *)
(***************************************************************************)
VARIABLES
    session_state,  \* st.session_state: a function from keys to values
    pc,             \* the block of the script the current run is about to execute
    clicked,        \* the button whose click started this run: none, fetch or ai
    indicators,     \* the multiselect's value
    i,              \* position of the for loop in indicators
    fig,            \* the figure of this run
    log,            \* what this run has shown and called so far, in order
    disk,           \* temporary files that exist
    tmpfile_path,   \* this run's temporary file (0: not bound)
    response,       \* what ollama.chat returned in this run
    uncaught,       \* the exception that ended this run, shown by Streamlit
    fetched         \* history: the frame the latest successful fetch returned

vars == <<session_state, pc, clicked, indicators, i, fig, log, disk,
          tmpfile_path, response, uncaught, fetched>>

NoResponse == [kind |-> "none"]

OptionSet == {Options[j] : j \in 1..Len(Options)}

\* sel without its k-th element
RemoveAt(sel, k) ==
    [j \in 1..(Len(sel) - 1) |-> IF j < k THEN sel[j] ELSE sel[j + 1]]

\* One interaction with the multiselect: an option not yet selected is added at
\* the end, or a selected one is removed.
SelectionChanges(sel) ==
    {Append(sel, o) : o \in {q \in OptionSet :
                               /\ Len(sel) < MaxSelected
                               /\ \A j \in 1..Len(sel) : sel[j] # q}}
    \cup {RemoveAt(sel, k) : k \in 1..Len(sel)}

\* the provider call as the log records it
ProviderEvent(r) ==
    IF r.kind = "raise" THEN "provider:raise:" \o r.cause
    ELSE IF empty(r.df) THEN "provider:empty"
    ELSE "provider:frame"

\* fetch_handler without the try/except: the provider's exception leaves the
\* block
fetch_handler_no_except(r, ss) ==
    IF r.kind = "raise" THEN
        [session_state |-> ss, out |-> <<>>, uncaught |-> r.cause]
    ELSE IF empty(r.df) THEN
        [session_state |-> ss, out |-> <<"st.error:no_data">>, uncaught |-> "none"]
    ELSE
        [session_state |-> [stock_data |-> r.df], out |-> <<"st.success">>,
         uncaught |-> "none"]

\* fetch_handler storing the frame before looking whether it is empty
fetch_handler_stores_empty(r, ss) ==
    IF r.kind = "raise" THEN
        [session_state |-> ss,
         out |-> <<"st.error:fetch:" \o r.cause>>,
         uncaught |-> "none"]
    ELSE IF empty(r.df) THEN
        [session_state |-> [stock_data |-> r.df],
         out |-> <<"st.error:no_data">>,
         uncaught |-> "none"]
    ELSE
        [session_state |-> [stock_data |-> r.df],
         out |-> <<"st.success">>,
         uncaught |-> "none"]

\* the fetch button's block after the provider call, lines 67-74: the session
\* state after it, what it showed, and the exception leaving it
fetch_handler(r, ss) ==
    IF r.kind = "raise" THEN
        [session_state |-> ss,
         out |-> <<"st.error:fetch:" \o r.cause>>,
         uncaught |-> "none"]
    ELSE IF empty(r.df) THEN
        [session_state |-> ss,
         out |-> <<"st.error:no_data">>,
         uncaught |-> "none"]
    ELSE
        [session_state |-> [stock_data |-> r.df],
         out |-> <<"st.success">>,
         uncaught |-> "none"]

\* line 77
has_stock_data(ss) ==
    "stock_data" \in DOMAIN ss /\ ~empty(ss.stock_data)

ChatErrors == {"timeout", "ResponseError"}

\* ollama.chat: it raises, or returns a response with or without a message
ChatResponses ==
    {[kind |-> "raise", cause |-> c] : c \in ChatErrors}
    \cup {[kind |-> "dict", body |-> [message |-> [content |-> "recommendation"]]],
          [kind |-> "dict", body |-> [error |-> "malformed"]]}

\* display_result falling back to a default text when the answer has no message
display_result_default(resp) ==
    IF "message" \in DOMAIN resp.body /\ "content" \in DOMAIN resp.body.message
    THEN [out |-> <<"st.write:header", "st.write:" \o resp.body.message.content>>,
          uncaught |-> "none"]
    ELSE [out |-> <<"st.write:header", "st.write:hold">>, uncaught |-> "none"]

\* lines 165-166: what is shown, and the exception leaving them
display_result(resp) ==
    IF "message" \in DOMAIN resp.body /\ "content" \in DOMAIN resp.body.message
    THEN [out |-> <<"st.write:header", "st.write:" \o resp.body.message.content>>,
          uncaught |-> "none"]
    ELSE [out |-> <<"st.write:header">>, uncaught |-> "KeyError"]

\* NamedTemporaryFile: a name no existing file has
NewFile(d) == CHOOSE f \in 1..(Cardinality(d) + 1) : f \notin d

Init ==
    /\ session_state = <<>>
    /\ pc = "fetch"
    /\ clicked = "none"
    /\ indicators = DefaultIndicators
    /\ i = 1
    /\ fig = <<>>
    /\ log = <<>>
    /\ disk = {}
    /\ tmpfile_path = 0
    /\ response = NoResponse
    /\ uncaught = "none"
    /\ fetched = <<>>

InLog(e) == \E k \in 1..Len(log) : log[k] = e

\* A user interaction starts the next run.  A button can be clicked only if the
\* previous run drew it; the multiselect keeps its value from run to run, changes
\* only by an interaction with it, and falls back to its default when the
\* previous run did not draw it.
StartRun ==
    /\ pc = "idle"
    /\ \E c \in {"none", "fetch", "ai"} :
        /\ c = "ai" => InLog("st.button:ai") /\ Cardinality(disk) < MaxTmpFiles
        /\ clicked' = c
        /\ IF ~InLog("multiselect") THEN indicators' = DefaultIndicators
           ELSE IF c = "none" THEN indicators' \in {indicators} \cup SelectionChanges(indicators)
           ELSE indicators' = indicators
    /\ pc' = "fetch"
    /\ i' = 1
    /\ fig' = <<>>
    /\ log' = <<>>
    /\ tmpfile_path' = 0
    /\ response' = NoResponse
    /\ uncaught' = "none"
    /\ UNCHANGED <<session_state, disk, fetched>>

\* line 60, button not clicked
FetchNotClicked ==
    /\ pc = "fetch"
    /\ clicked # "fetch"
    /\ pc' = "guard"
    /\ UNCHANGED <<session_state, clicked, indicators, i, fig, log, disk,
                   tmpfile_path, response, uncaught, fetched>>

\* lines 60-74, button clicked
FetchData ==
    /\ pc = "fetch"
    /\ clicked = "fetch"
    /\ \E r \in ProviderResponses :
        LET h == fetch_handler(r, session_state) IN
        /\ session_state' = h.session_state
        /\ log' = log \o <<"st.info", ProviderEvent(r)>> \o h.out
                     \o (IF h.uncaught = "none" THEN <<>> ELSE <<"st.exception">>)
        /\ uncaught' = h.uncaught
        /\ pc' = IF h.uncaught = "none" THEN "guard" ELSE "idle"
        /\ fetched' = IF r.kind = "frame" /\ ~empty(r.df) THEN <<r.df>> ELSE fetched
    /\ UNCHANGED <<clicked, indicators, i, fig, disk, tmpfile_path, response>>

\* NoData with the chart section outside the guard: the chart is drawn although
\* no series is stored
NoData_chart_unguarded ==
    /\ pc = "guard"
    /\ ~has_stock_data(session_state)
    /\ log' = log \o <<"st.plotly_chart", "st.button:ai">>
    /\ pc' = "idle"
    /\ UNCHANGED <<session_state, clicked, indicators, i, fig, disk,
                   tmpfile_path, response, uncaught, fetched>>

\* line 77 false: the script ends
NoData ==
    /\ pc = "guard"
    /\ ~has_stock_data(session_state)
    /\ pc' = "idle"
    /\ UNCHANGED <<session_state, clicked, indicators, i, fig, log, disk,
                   tmpfile_path, response, uncaught, fetched>>

\* lines 77-98: the candlestick figure and the multiselect
StartChart ==
    /\ pc = "guard"
    /\ has_stock_data(session_state)
    /\ fig' = <<Candlestick(session_state.stock_data)>>
    /\ log' = log \o <<"candlestick", "multiselect">>
    /\ i' = 1
    /\ pc' = "loop"
    /\ UNCHANGED <<session_state, clicked, indicators, disk, tmpfile_path,
                   response, uncaught, fetched>>

\* lines 126-127, one iteration
AddIndicator ==
    /\ pc = "loop"
    /\ i <= Len(indicators)
    /\ LET r == add_indicator(indicators[i], fig, session_state.stock_data) IN
        /\ fig' = r.fig
        /\ session_state' = [session_state EXCEPT !.stock_data = r.data]
    /\ log' = Append(log, "add_indicator")
    /\ i' = i + 1
    /\ UNCHANGED <<pc, clicked, indicators, disk, tmpfile_path, response,
                   uncaught, fetched>>

\* lines 129-141: the chart is drawn, then the AI button
Render ==
    /\ pc = "loop"
    /\ i > Len(indicators)
    /\ log' = log \o <<"st.plotly_chart", "st.button:ai">>
    /\ pc' = IF clicked = "ai" THEN "ai_image" ELSE "idle"
    /\ UNCHANGED <<session_state, clicked, indicators, i, fig, disk,
                   tmpfile_path, response, uncaught, fetched>>

\* lines 144-146: the temporary file is created (and kept on close), then the
\* figure is exported into it, which can raise
WriteImage ==
    /\ pc = "ai_image"
    /\ LET f == NewFile(disk) IN
        /\ disk' = disk \cup {f}
        /\ \E ok \in BOOLEAN :
            IF ok
            THEN /\ tmpfile_path' = f
                 /\ log' = Append(log, "fig.write_image")
                 /\ pc' = "ai_chat"
                 /\ UNCHANGED uncaught
            ELSE /\ tmpfile_path' = 0
                 /\ log' = log \o <<"fig.write_image", "st.exception">>
                 /\ uncaught' = "write_image"
                 /\ pc' = "idle"
    /\ UNCHANGED <<session_state, clicked, indicators, i, fig, response, fetched>>

\* lines 149-162: the image is read back and sent to the model, once
Chat ==
    /\ pc = "ai_chat"
    /\ \E r \in ChatResponses :
        /\ response' = r
        /\ IF r.kind = "raise"
           THEN /\ log' = log \o <<"ollama.chat", "st.exception">>
                /\ uncaught' = r.cause
                /\ pc' = "idle"
           ELSE /\ log' = Append(log, "ollama.chat")
                /\ pc' = "ai_display"
                /\ UNCHANGED uncaught
    /\ UNCHANGED <<session_state, clicked, indicators, i, fig, disk,
                   tmpfile_path, fetched>>

\* lines 165-166
DisplayResult ==
    /\ pc = "ai_display"
    /\ LET d == display_result(response) IN
        /\ uncaught' = d.uncaught
        /\ IF d.uncaught = "none"
           THEN /\ log' = log \o d.out
                /\ pc' = "ai_remove"
           ELSE /\ log' = log \o d.out \o <<"st.exception">>
                /\ pc' = "idle"
    /\ UNCHANGED <<session_state, clicked, indicators, i, fig, disk,
                   tmpfile_path, response, fetched>>

\* line 169
RemoveTmpFile ==
    /\ pc = "ai_remove"
    /\ disk' = disk \ {tmpfile_path}
    /\ log' = Append(log, "os.remove")
    /\ pc' = "idle"
    /\ UNCHANGED <<session_state, clicked, indicators, i, fig, tmpfile_path,
                   response, uncaught, fetched>>

Next ==
    \/ StartRun
    \/ FetchNotClicked
    \/ FetchData
    \/ NoData
    \/ StartChart
    \/ AddIndicator
    \/ Render
    \/ WriteImage
    \/ Chat
    \/ DisplayResult
    \/ RemoveTmpFile

Spec == Init /\ [][Next]_vars

(***************************************************************************)
(* The chart section alone, lines 77-141, over every frame a fetch can     *)
(* have stored (up to more than 200 bars) and every value of the           *)
(* multiselect: a run stands at the guard of line 77 with the frame in the *)
(* session state, as a run does after a successful fetch.                  *)
(***************************************************************************)
\* the values the multiselect can hold: options in the order picked, no repeats
Selections ==
    {sel \in UNION {[1..k -> OptionSet] : k \in 0..MaxSelected} :
        \A a, b \in 1..Len(sel) : a # b => sel[a] # sel[b]}

InitChart ==
    /\ \E df \in Frames :
        /\ session_state = [stock_data |-> df]
        /\ fetched = <<df>>
    /\ indicators \in Selections
    /\ pc = "guard"
    /\ clicked = "none"
    /\ i = 1
    /\ fig = <<>>
    /\ log = <<>>
    /\ disk = {}
    /\ tmpfile_path = 0
    /\ response = NoResponse
    /\ uncaught = "none"

NextChart ==
    \/ StartChart
    \/ AddIndicator
    \/ Render

SpecChart == InitChart /\ [][NextChart]_vars

(***************************************************************************)
(* Reference definitions the properties are stated with: each statistic    *)
(* written directly from its mathematical definition, bar by bar, over the *)
(* frames the provider can return.                                         *)
(***************************************************************************)
\* x[lo] + ... + x[hi]
RECURSIVE SumOver(_, _, _)
SumOver(x, lo, hi) ==
    IF lo > hi THEN 0
    ELSE IF lo = hi THEN x[lo]
    ELSE LET mid == (lo + hi) \div 2
         IN  SumOver(x, lo, mid) + SumOver(x, mid + 1, hi)

\* the sum over lo..hi of (w * x[j] - total)^2: w^2 times the squared deviations
\* from the mean total / w
RECURSIVE DevSqOver(_, _, _, _, _)
DevSqOver(x, w, total, lo, hi) ==
    IF lo > hi THEN 0
    ELSE IF lo = hi THEN (w * x[lo] - total) * (w * x[lo] - total)
    ELSE LET mid == (lo + hi) \div 2
         IN  DevSqOver(x, w, total, lo, mid) + DevSqOver(x, w, total, mid + 1, hi)

FetchedColumns == {"Date", "ClosePrice", "TotalTradedQuantity"}

\* a frame restricted to the columns the provider returned
AsFetched(df) == [c \in FetchedColumns |-> df[c]]

\* mean of close[t-w+1..t] where t >= w, undefined before
MeanByDefinition(x, w) ==
    [t \in 1..Len(x) |-> IF t < w THEN NaN ELSE Rat(SumOver(x, t - w + 1, t), w)]

MeanTable ==
    [df \in Frames |-> [w \in Windows |-> MeanByDefinition(df.ClosePrice, w)]]

\* sum(close * volume) / sum(volume) over bars 1..t, where the volume so far is
\* positive
VwapByDefinition(df) ==
    [t \in 1..Len(df.Date) |->
        LET den == SumOver(df.TotalTradedQuantity, 1, t)
            num == SumOver(Mul(df.ClosePrice, df.TotalTradedQuantity), 1, t)
        IN  [defined |-> den > 0, num |-> num, den |-> den]]

VwapTable == [df \in Frames |-> VwapByDefinition(df)]

\* w^3 (w - 1) times the sample variance of close[t-w+1..t], where t >= w
DevSqByDefinition(x, w) ==
    [t \in 1..Len(x) |->
        IF t < w THEN 0
        ELSE DevSqOver(x, w, SumOver(x, t - w + 1, t), t - w + 1, t)]

DevSqTable == [df \in Frames |-> DevSqByDefinition(df.ClosePrice, BB_WINDOW)]

\* the stored frame and the traces of the figure with a given name
data == session_state.stock_data

TracesNamed(name) == {k \in 1..Len(fig) : fig[k].name = name}

WindowOf(name) ==
    IF name = "SMA (20)" THEN SMA_WINDOW
    ELSE IF name = "DMA (50)" THEN DMA50_WINDOW
    ELSE DMA200_WINDOW

MeanTraceNames == {"SMA (20)", "DMA (50)", "DMA (200)"}

\* C3: for every series with at least w bars, w in {20, 50, 200}, the moving
\* average trace has one value per date of the series, undefined at the first
\* w-1 bars and, from bar w on, equal to the mean of the w closes ending at
\* that bar.
C3_MovingAverageIsTrailingMean ==
    \A k \in 1..Len(fig) :
        (fig[k].name \in MeanTraceNames /\ Len(data.Date) >= WindowOf(fig[k].name)) =>
            /\ fig[k].x = to_datetime(data.Date)
            /\ fig[k].y = MeanTable[AsFetched(data)][WindowOf(fig[k].name)]

\* the 200-day and 20-day averages drawn over a series longer than 200 bars
C3_Witness ==
    /\ TracesNamed("DMA (200)") # {}
    /\ TracesNamed("SMA (20)") # {}
    /\ Len(data.Date) > DMA200_WINDOW
    /\ \E k \in TracesNamed("DMA (200)") : IsDefined(fig[k].y[Len(data.Date)])

\* C4 as stated: VWAP is defined at every bar and equals cumulative
\* close*volume over cumulative volume there.
C4_VwapDefinedEverywhere ==
    \A k \in TracesNamed("VWAP") :
        \A t \in 1..Len(data.Date) :
            /\ IsDefined(fig[k].y[t])
            /\ fig[k].y[t] = Rat(VwapTable[AsFetched(data)][t].num,
                                 VwapTable[AsFetched(data)][t].den)

\* C4 amended: at every bar where the cumulative volume is positive VWAP is
\* defined and equals cumulative close*volume over cumulative volume (a running
\* statistic from the first bar); at the bars where no volume has traded yet it
\* is undefined (NaN).  The trace and the stored VWAP column hold these values.
C4_VwapWhereVolumeTraded ==
    \A k \in TracesNamed("VWAP") :
        /\ fig[k].x = to_datetime(data.Date)
        /\ fig[k].y = data.VWAP
        /\ Len(fig[k].y) = Len(data.Date)
        /\ \A t \in 1..Len(data.Date) :
            LET v == VwapTable[AsFetched(data)][t]
            IN  IF v.defined THEN fig[k].y[t] = Rat(v.num, v.den)
                ELSE fig[k].y[t] = NaN

\* VWAP drawn over a long series that opens with zero-volume bars and has
\* zero-volume bars later
C4_Witness ==
    \E k \in TracesNamed("VWAP") :
        /\ Len(data.Date) > DMA200_WINDOW
        /\ data.TotalTradedQuantity[1] = 0
        /\ ~IsDefined(fig[k].y[1])
        /\ IsDefined(fig[k].y[Len(data.Date)])
        /\ \E t \in 2..Len(data.Date) :
            data.TotalTradedQuantity[t] = 0 /\ IsDefined(fig[k].y[t])

\* C5: the Bollinger bands are defined exactly where SMA(20) is (not at the
\* first 19 bars); where defined, upper = SMA20 + 2 sigma and lower = SMA20 -
\* 2 sigma with SMA20 the mean and sigma the sample standard deviation of the
\* 20 closes ending at the bar, so upper - lower = 4 sigma and lower <= SMA20 <=
\* upper.
C5_BollingerBands ==
    \A u \in TracesNamed("BB Upper") :
        /\ u + 1 \in TracesNamed("BB Lower")
        /\ \A t \in 1..Len(data.Date) :
            LET up == fig[u].y[t]
                lo == fig[u + 1].y[t]
                m  == MeanTable[AsFetched(data)][SMA_WINDOW][t]
            IN  /\ IsDefined(up) <=> IsDefined(m)
                /\ IsDefined(lo) <=> IsDefined(m)
                /\ IsDefined(m) <=> t >= SMA_WINDOW
                /\ IsDefined(m) =>
                    /\ up.mean = m /\ lo.mean = m
                    /\ up.var = lo.var
                    /\ up.var.den = BB_WINDOW * (BB_WINDOW - 1)
                    /\ up.var.num * BB_WINDOW = DevSqTable[AsFetched(data)][t]
                    /\ up.var.num >= 0
                    /\ up.k = 2 /\ lo.k = 0 - 2
                    /\ up.k - lo.k = 4
                    /\ lo.k <= 0 /\ 0 <= up.k

\* bands drawn over a series longer than the window, with a positive spread
C5_Witness ==
    \E u \in TracesNamed("BB Upper") :
        /\ Len(data.Date) > BB_WINDOW
        /\ IsDefined(fig[u].y[Len(data.Date)])
        /\ fig[u].y[Len(data.Date)].var.num > 0
        /\ ~IsDefined(fig[u].y[BB_WINDOW - 1])

\* the window behind a trace, 0 for the traces that have none
TraceWindow(name) ==
    IF name \in {"SMA (20)"} THEN SMA_WINDOW
    ELSE IF name \in {"BB Upper", "BB Lower"} THEN BB_WINDOW
    ELSE IF name = "DMA (50)" THEN DMA50_WINDOW
    ELSE IF name = "DMA (200)" THEN DMA200_WINDOW
    ELSE 0

\* the traces add_indicator draws for an indicator
TraceNamesOf(indicator) ==
    IF indicator = "20-Day SMA" THEN <<"SMA (20)">>
    ELSE IF indicator = "20-Day EMA" THEN <<"EMA (20)">>
    ELSE IF indicator = "20-Day Bollinger Bands" THEN <<"BB Upper", "BB Lower">>
    ELSE IF indicator = "VWAP" THEN <<"VWAP">>
    ELSE IF indicator = "50-Day DMA" THEN <<"DMA (50)">>
    ELSE <<"DMA (200)">>

RECURSIVE TraceNamesOfAll(_)
TraceNamesOfAll(sel) ==
    IF sel = <<>> THEN <<>>
    ELSE TraceNamesOf(Head(sel)) \o TraceNamesOfAll(Tail(sel))

Count(e) == Cardinality({k \in 1..Len(log) : log[k] = e})

\* C6: a windowed indicator (SMA 20, Bollinger 20, DMA 50, DMA 200) over a
\* non-empty series shorter than its window is undefined at every bar and
\* raises nothing: the chart section ends only after drawing the chart, and the
\* chart then holds the candlestick and the traces of every selected indicator,
\* in order.
C6_ShortSeriesUndefinedNotError ==
    /\ \A k \in 1..Len(fig) :
        (Len(data.Date) < TraceWindow(fig[k].name)) =>
            /\ Len(fig[k].y) = Len(data.Date)
            /\ \A t \in 1..Len(data.Date) : fig[k].y[t] = NaN
    /\ (InLog("multiselect") /\ ~InLog("fig.write_image")) => uncaught = "none"
    /\ (pc = "idle" /\ InLog("multiselect")) => InLog("st.plotly_chart")
    /\ InLog("st.plotly_chart") =>
        [k \in 1..Len(fig) |-> fig[k].name]
            = <<"Candlestick">> \o TraceNamesOfAll(indicators)

\* a 49-bar series: the 50-day average is undefined everywhere, the chart is
\* drawn, and the 20-day average selected after it is computed
C6_Witness ==
    /\ InLog("st.plotly_chart")
    /\ indicators = <<"50-Day DMA", "20-Day SMA">>
    /\ Len(data.Date) = DMA50_WINDOW - 1
    /\ \A t \in 1..Len(data.Date) : ~IsDefined(fig[2].y[t])
    /\ IsDefined(fig[3].y[Len(data.Date)])

\* C7 as stated: the stored series is never changed between fetches: it is at
\* all times exactly the frame the latest successful fetch returned.
C7_StoredSeriesImmutable ==
    fetched # <<>> => session_state.stock_data = fetched[1]

\* C8: no series is stored before the first successful fetch; a successful
\* fetch stores the frame it returned in place of the previous one; a failed or
\* empty fetch neither clears nor replaces the stored series.  So the stored
\* series always carries the data of the latest successful fetch.
C8_StoredSeriesIsLatestSuccessfulFetch ==
    /\ fetched = <<>> <=> "stock_data" \notin DOMAIN session_state
    /\ fetched # <<>> => AsFetched(session_state.stock_data) = fetched[1]
    /\ (pc = "guard" /\ InLog("st.success")) => session_state.stock_data = fetched[1]
    /\ (pc = "guard" /\ InLog("provider:frame")) => InLog("st.success")
    /\ InLog("st.success") => InLog("provider:frame")

\* an empty answer right after the fetch step, with the earlier series kept
C8_Witness ==
    /\ pc = "guard"
    /\ InLog("st.error:no_data")
    /\ fetched # <<>>
    /\ has_stock_data(session_state)

\* the fetch step of this run got no data: the provider raised or returned an
\* empty frame
FetchFailed ==
    /\ Len(log) >= 2
    /\ log[1] = "st.info"
    /\ log[2] # "provider:frame"

\* C1: when the provider returns an empty frame or raises, an error message
\* is shown (the no-data message, or the fetch error with the exception's
\* text), no exception leaves the fetch step, and the run goes on: it ends
\* having drawn the chart exactly when a series is stored.
C1_FetchFailureIsShownNotRaised ==
    FetchFailed =>
        /\ Len(log) >= 3
        /\ log[2] = "provider:empty" => log[3] = "st.error:no_data"
        /\ \A c \in ProviderErrors :
            log[2] = "provider:raise:" \o c => log[3] = "st.error:fetch:" \o c
        /\ log[2] \in {"provider:empty"} \cup {"provider:raise:" \o c : c \in ProviderErrors}
        /\ uncaught = "none"
        /\ ~InLog("st.exception")
        /\ pc # "fetch"
        /\ pc = "idle" => (has_stock_data(session_state) <=> InLog("st.plotly_chart"))

\* the provider raised and the run still drew the chart of the stored series
C1_Witness ==
    /\ pc = "idle"
    /\ FetchFailed
    /\ log[2] = "provider:raise:ConnectionError"
    /\ InLog("st.plotly_chart")

\* the narrative-model call of this run failed: it raised, or its answer has no
\* message
ChatFailed ==
    /\ InLog("ollama.chat")
    /\ \/ response.kind = "raise"
       \/ response.kind = "dict" /\ "message" \notin DOMAIN response.body

\* C2: when the call to the narrative model fails, the run ends with the
\* exception itself shown (its cause kept), nothing but the results header is
\* shown after the call (no recommendation, no default), the model was called
\* once, and the session goes on: the stored series is intact and a next run
\* can start.
C2_ChatFailureSurfaced ==
    (pc = "idle" /\ ChatFailed) =>
        /\ uncaught = (IF response.kind = "raise" THEN response.cause ELSE "KeyError")
        /\ log[Len(log)] = "st.exception"
        /\ \A j, k \in 1..Len(log) :
            (log[j] = "ollama.chat" /\ k > j) =>
                log[k] \in {"st.write:header", "st.exception"}
        /\ Count("ollama.chat") = 1
        /\ has_stock_data(session_state)
        /\ AsFetched(session_state.stock_data) = fetched[1]
        /\ ENABLED StartRun

\* the model call timed out
C2_Witness ==
    /\ pc = "idle"
    /\ ChatFailed
    /\ response.kind = "raise"
    /\ response.cause = "timeout"

\* C9 as stated: when a run has ended, no temporary file is left on disk.
C9_NoTmpFileRemains ==
    pc = "idle" => disk = {}

\* the stage of the pipeline an entry of the log belongs to
Stage(e) ==
    IF e \in {"candlestick", "multiselect", "add_indicator"} THEN 2
    ELSE IF e \in {"st.plotly_chart", "st.button:ai"} THEN 3
    ELSE IF e \in {"fig.write_image", "ollama.chat"} THEN 4
    ELSE IF e \in {"st.write:header", "st.write:recommendation", "os.remove"} THEN 5
    ELSE IF e = "st.exception" THEN 6
    ELSE 1

\* C10: the chart is composed and drawn, and the narrative model called, only
\* while a non-empty series is stored, hence never before the first successful
\* fetch; and what a run does is ordered: fetch step, indicator computation,
\* chart, AI call, result display.
C10_ChartAndAiNeedSeriesInOrder ==
    /\ (\/ InLog("candlestick") \/ InLog("st.plotly_chart") \/ InLog("ollama.chat")
        \/ pc \in {"loop", "ai_image", "ai_chat", "ai_display", "ai_remove"}) =>
            /\ has_stock_data(session_state)
            /\ fetched # <<>>
    /\ \A j, k \in 1..Len(log) : j < k => Stage(log[j]) <= Stage(log[k])
    /\ InLog("st.plotly_chart") => Count("add_indicator") = Len(indicators)
    /\ InLog("fig.write_image") => InLog("st.plotly_chart")
    /\ InLog("ollama.chat") => InLog("fig.write_image")
    /\ InLog("st.write:recommendation") => InLog("ollama.chat")

\* a run that computed two indicators, drew the chart, called the model and
\* showed its recommendation
C10_Witness ==
    /\ InLog("st.write:recommendation")
    /\ Count("add_indicator") = 2

====
